---------------------------- MODULE Spec2Model ----------------------------
(***************************************************************************)
(* A model of the in-memory CommonJS-style module loader of the Vue SSR    *)
(* rendering service (src/src/server.ts): resolveRelativePath,             *)
(* executeFile, makeRequireFunction, addMessages, executeModule and the    *)
(* part of the /render handler that builds the request context and loads   *)
(* the main module.                                                        *)
(*                                                                         *)
(* JavaScript strings are sequences of one-character strings, so that the  *)
(* regular expression, split, pop and join of resolveRelativePath are      *)
(* computed character by character.                                        *)
(***************************************************************************)
EXTENDS Integers, Sequences, FiniteSets, TLC

(***************************************************************************)
(*                          Strings                                        *)
(***************************************************************************)

\* null, the value resolveRelativePath returns for a path that is not
\* relative.  No string equals it: every element of a string is one character.
Null == <<"null">>

\* The result before resolveRelativePath is called.
NotCalled == <<"not called">>

\* The characters the regular expression's "." does not match.
LineTerminators == {"\n"}

\* String.prototype.split( sep ) for a one-character separator.
RECURSIVE SplitFrom(_, _, _, _)
SplitFrom(s, sep, i, cur) ==
    IF i > Len(s) THEN <<cur>>
    ELSE IF s[i] = sep THEN <<cur>> \o SplitFrom(s, sep, i + 1, <<>>)
    ELSE SplitFrom(s, sep, i + 1, Append(cur, s[i]))

Split(s, sep) == SplitFrom(s, sep, 1, <<>>)

\* Array.prototype.join( sep ).
RECURSIVE Join(_, _)
Join(parts, sep) ==
    IF Len(parts) = 0 THEN <<>>
    ELSE IF Len(parts) = 1 THEN parts[1]
    ELSE parts[1] \o <<sep>> \o Join(Tail(parts), sep)

\* Array.prototype.pop(): the array without its last element; popping an
\* empty array leaves it empty.
Pop(arr) == IF Len(arr) = 0 THEN arr ELSE SubSeq(arr, 1, Len(arr) - 1)

\* The length of the token \.\.?\/ at position i of s, 0 when there is none.
TokenAt(s, i) ==
    IF i + 2 <= Len(s) /\ s[i] = "." /\ s[i + 1] = "." /\ s[i + 2] = "/" THEN 3
    ELSE IF i + 1 <= Len(s) /\ s[i] = "." /\ s[i + 1] = "/" THEN 2
    ELSE 0

\* The end of the greedy run (?:\.\.?\/)+ that starts at position i.
RECURSIVE RunEnd(_, _)
RunEnd(s, i) == IF TokenAt(s, i) = 0 THEN i - 1 ELSE RunEnd(s, i + TokenAt(s, i))

\* relativePath.match( /^((?:\.\.?\/)+)(.*)$/ ): <<group 1, group 2>>, or
\* Null.  "." matches no line terminator and "$" only the end of the input,
\* so the rest after the run must be free of line terminators.
RegexMatch(s) ==
    LET e == RunEnd(s, 1)
        rest == SubSeq(s, e + 1, Len(s))
    IN  IF e = 0 \/ \E k \in 1..Len(rest) : rest[k] \in LineTerminators
        THEN Null
        ELSE <<SubSeq(s, 1, e), rest>>

\* The while loop over prefixes: one baseDirParts.pop() for every "..".
RECURSIVE PopForPrefixes(_, _)
PopForPrefixes(baseDirParts, prefixes) ==
    IF Len(prefixes) = 0 THEN baseDirParts
    ELSE PopForPrefixes(
             IF prefixes[Len(prefixes)] = <<".", ".">> THEN Pop(baseDirParts)
             ELSE baseDirParts,
             Pop(prefixes))

resolveRelativePath(relativePath, basePath) ==
    LET relParts == RegexMatch(relativePath) IN
    IF relParts = Null THEN Null
    ELSE LET baseDirParts == PopForPrefixes(Pop(Split(basePath, "/")),
                                            Pop(Split(relParts[1], "/")))
         IN  (IF Len(baseDirParts) # 0 THEN Join(baseDirParts, "/") \o <<"/">>
              ELSE <<>>) \o relParts[2]


\* String.prototype.endsWith and startsWith.
EndsWith(s, suffix) ==
    Len(s) >= Len(suffix) /\ SubSeq(s, Len(s) - Len(suffix) + 1, Len(s)) = suffix

StartsWith(s, prefix) ==
    Len(s) >= Len(prefix) /\ SubSeq(s, 1, Len(prefix)) = prefix

WhiteSpace == {" ", "\n", "\t"}

\* String.prototype.trim().
RECURSIVE TrimStart(_)
TrimStart(s) ==
    IF Len(s) > 0 /\ s[1] \in WhiteSpace THEN TrimStart(Tail(s)) ELSE s

RECURSIVE TrimEnd(_)
TrimEnd(s) ==
    IF Len(s) > 0 /\ s[Len(s)] \in WhiteSpace THEN TrimEnd(Pop(s)) ELSE s

Trim(s) == TrimEnd(TrimStart(s))

(***************************************************************************)
(*                  Names, paths and require() arguments                   *)
(***************************************************************************)

N_main == <<"m", "a", "i", "n">>
N_A == <<"A">>
N_B == <<"B">>
N_C == <<"C">>
N_vue == <<"v", "u", "e">>
N_toString == <<"t", "o", "S", "t", "r", "i", "n", "g">>
N_zz == <<"z", "z">>

P_a == <<"a">>
P_sb == <<"s", "/", "b">>
P_dvue == <<"d", ".", "v", "u", "e">>
P_cvue == <<"c", ".", "v", "u", "e">>

\* The arguments the scripts of the model pass to require().
R_a == <<".", "/", "a">>
R_up_a == <<".", ".", "/", "a">>
R_b == <<".", "/", "b">>
R_sb == <<".", "/", "s", "/", "b">>
R_dvue == <<".", "/", "d", ".", "v", "u", "e">>
R_cvue == <<".", "/", "c", ".", "v", "u", "e">>

(***************************************************************************)
(*                      JavaScript values and errors                       *)
(***************************************************************************)

\* The n-th object the request allocated ( { exports: {} }.exports, or an
\* object a script assigns to module.exports ).
Obj(n) == <<"object", n>>
\* builtinModules.vue
Vue == <<"builtin", N_vue>>
\* builtinModules[ name ] for a name builtinModules only inherits from
\* Object.prototype
Inherited(name) == <<"inherited", name>>
\* The value the request supplies for a files entry that is not a string.
FileValue(moduleName, path) == <<"file", moduleName, path>>
Undefined == <<"undefined">>

IsObj(v) == v[1] = "object"

\* Names every object literal inherits from Object.prototype (toString,
\* constructor, hasOwnProperty, ...); one stands for all of them.
ObjectPrototypeNames == {N_toString}

\* const builtinModules = { vue: Vue }: its own properties.
builtinModules == [n \in {N_vue} |-> Vue]

\* fileName in builtinModules: the in operator follows the prototype chain.
InBuiltinModules(fileName) ==
    fileName \in DOMAIN builtinModules \/ fileName \in ObjectPrototypeNames

\* builtinModules[ fileName ]
BuiltinModulesGet(fileName) ==
    IF fileName \in DOMAIN builtinModules THEN builtinModules[fileName]
    ELSE Inherited(fileName)

\* hasOwn.call( obj, key ) for the maps of the model.
hasOwn(obj, key) == key \in DOMAIN obj

\* obj[ key ] = value
\* obj[ key ]: undefined for a key the object does not have.
Get(obj, key) == IF key \in DOMAIN obj THEN obj[key] ELSE Undefined

Put(obj, key, value) ==
    [k \in DOMAIN obj \cup {key} |-> IF k = key THEN value ELSE obj[k]]

EmptyMap == [k \in {} |-> Undefined]

\* Errors: the kind and what it is about.
\*   UnknownModule  new Error( 'Cannot require() undefined module ...' )
\*   UnknownFile    new Error( 'Cannot require() undefined file ...' )
\*   TypeError      destructuring or reading a property of undefined
\*   SyntaxError    JSON.parse of malformed messages
\*   ExecutionError whatever a script throws
Err(kind, about) == <<kind, about>>

NoReturn == [kind |-> "none", v |-> Undefined]
ReturnValue(v) == [kind |-> "value", v |-> v]
Throw(e) == [kind |-> "throw", v |-> e]

(***************************************************************************)
(*                         Request bodies                                  *)
(***************************************************************************)

\* A files entry: a string of source text or a value that is not a string.
\* Of a source text the model keeps its leading characters (enough for
\* code.trim().startsWith( '<' )) and the arguments of the require( ... )
\* calls written in it; which of them a run of the script makes, how often
\* and in what order is left open.
\* For the text of an SFC, what parse( code ) of vue/compiler-sfc gives:
\* errors, whether it reports any (it returns them, it does not throw), and
\* script and template, whether the descriptor has these blocks (null
\* when not).
JsSource(requires) ==
    [type |-> "string", text |-> <<"v", "a", "r">>, requires |-> requires,
     errors |-> FALSE, script |-> TRUE, template |-> TRUE]
SfcSource(requires) ==
    [type |-> "string", text |-> <<"\n", "<", "t">>, requires |-> requires,
     errors |-> FALSE, script |-> TRUE, template |-> TRUE]
SfcMalformed(requires, script, template) ==
    [type |-> "string", text |-> <<"<", "t">>, requires |-> requires,
     errors |-> TRUE, script |-> script, template |-> template]
NotSource ==
    [type |-> "object", text |-> <<>>, requires |-> {},
     errors |-> FALSE, script |-> FALSE, template |-> FALSE]

\* The messages of a module definition: an object, or a string for
\* JSON.parse, which throws a SyntaxError on malformed text.
MessagesObject(entries) == [type |-> "object", valid |-> TRUE, entries |-> entries]
MessagesString(entries) == [type |-> "string", valid |-> TRUE, entries |-> entries]
MessagesMalformed == [type |-> "string", valid |-> FALSE, entries |-> EmptyMap]

Messages1(k, v) == [x \in {k} |-> v]
Messages2(k1, v1, k2, v2) == [x \in {k1, k2} |-> IF x = k1 THEN v1 ELSE v2]

\* type ModuleDefinition, with the defaults of the destructuring in
\* executeModule: messages = {}, dependencies = [].
ModuleDefinition(files, entry, messages, dependencies) ==
    [files |-> files, entry |-> entry, messages |-> messages,
     dependencies |-> dependencies]

Files1(p, c) == [x \in {p} |-> c]
Files2(p1, c1, p2, c2) == [x \in {p1, p2} |-> IF x = p1 THEN c1 ELSE c2]
Files3(p1, c1, p2, c2, p3, c3) ==
    [x \in {p1, p2, p3} |-> IF x = p1 THEN c1 ELSE IF x = p2 THEN c2 ELSE c3]

\* Files that require each other and themselves, an SFC, two modules with
\* files at the same paths, and a module named like a built-in; main
\* declares A.
RegistryBasic ==
    [n \in {N_main, N_A, N_vue} |->
        IF n = N_main
        THEN ModuleDefinition(
                 Files3(P_a, JsSource({R_a, R_sb, R_cvue, N_zz}),
                        P_sb, JsSource({R_up_a, R_b, R_a}),
                        P_cvue, SfcSource({N_vue, N_A})),
                 P_a, MessagesObject(Messages1("greeting", "main")), <<N_A>>)
        ELSE IF n = N_A
        THEN ModuleDefinition(
                 Files2(P_a, JsSource({R_sb, N_main, N_toString}), P_sb, NotSource),
                 P_a, MessagesString(Messages2("greeting", "A", "title", "A")), <<>>)
        ELSE ModuleDefinition(Files1(P_a, JsSource({})), P_a,
                 MessagesObject(Messages1("greeting", "vue")), <<>>)]

\* Nested and repeated dependencies: main declares A and B, A declares B.
RegistryDependencies ==
    [n \in {N_main, N_A, N_B} |->
        IF n = N_main
        THEN ModuleDefinition(Files1(P_a, JsSource({N_A, N_B})), P_a,
                 MessagesObject(Messages1("greeting", "main")), <<N_A, N_B>>)
        ELSE IF n = N_A
        THEN ModuleDefinition(Files1(P_a, JsSource({N_A, N_B})), P_a,
                 MessagesObject(Messages1("greeting", "A")), <<N_B>>)
        ELSE ModuleDefinition(Files1(P_a, JsSource({N_main})), P_a,
                 MessagesObject(Messages2("greeting", "B", "title", "B")), <<>>)]

\* A's entry is no key of its files, B declares a module that does not
\* exist, the messages of C do not parse.
RegistryBroken ==
    [n \in {N_main, N_A, N_B, N_C} |->
        IF n = N_main
        THEN ModuleDefinition(Files1(P_a, JsSource({N_A, N_B, N_C})), P_a,
                 MessagesObject(Messages1("greeting", "main")), <<N_A>>)
        ELSE IF n = N_A
        THEN ModuleDefinition(Files1(P_sb, JsSource({})), P_a,
                 MessagesObject(Messages1("greeting", "A")), <<>>)
        ELSE IF n = N_B
        THEN ModuleDefinition(Files1(P_a, JsSource({})), P_a,
                 MessagesObject(Messages1("title", "B")), <<N_A, N_zz>>)
        ELSE ModuleDefinition(Files1(P_a, JsSource({})), P_a, MessagesMalformed, <<>>)]

\* A cycle of declared dependencies, and a module named like a built-in.
RegistryCycle ==
    [n \in {N_main, N_A, N_vue} |->
        IF n = N_main
        THEN ModuleDefinition(Files1(P_a, JsSource({})), P_a,
                 MessagesObject(Messages1("greeting", "main")), <<N_vue, N_A>>)
        ELSE IF n = N_A
        THEN ModuleDefinition(Files1(P_a, JsSource({})), P_a,
                 MessagesObject(Messages1("greeting", "A")), <<N_main>>)
        ELSE ModuleDefinition(Files1(P_a, JsSource({})), P_a,
                 MessagesObject(Messages1("greeting", "vue")), <<>>)]

\* No cycle and every name declared: the entry of main requires B, which
\* declares A; all three have a message greeting.
RegistryRetry ==
    [n \in {N_main, N_A, N_B} |->
        IF n = N_main
        THEN ModuleDefinition(Files1(P_a, JsSource({N_B})), P_a,
                 MessagesObject(Messages1("greeting", "main")), <<>>)
        ELSE IF n = N_A
        THEN ModuleDefinition(Files1(P_a, JsSource({})), P_a,
                 MessagesObject(Messages2("greeting", "A", "title", "A")), <<>>)
        ELSE ModuleDefinition(Files1(P_a, JsSource({})), P_a,
                 MessagesString(Messages1("greeting", "B")), <<N_A>>)]

\* Files whose markup does not parse: for c.vue the descriptor has the
\* script and the template all the same, for d.vue it has no script.
RegistryMarkup ==
    [n \in {N_main} |->
        ModuleDefinition(
            Files3(P_a, JsSource({R_cvue, R_dvue}),
                   P_cvue, SfcMalformed({}, TRUE, TRUE),
                   P_dvue, SfcMalformed({}, FALSE, TRUE)),
            P_a, MessagesObject(Messages1("greeting", "main")), <<>>)]

\* A cycle of declared dependencies through a module named like a
\* built-in.
RegistryBuiltinCycle ==
    [n \in {N_main, N_vue} |->
        IF n = N_main
        THEN ModuleDefinition(Files1(P_a, JsSource({})), P_a,
                 MessagesObject(Messages1("greeting", "main")), <<N_vue>>)
        ELSE ModuleDefinition(Files1(P_a, JsSource({})), P_a,
                 MessagesObject(Messages1("greeting", "vue")), <<N_main>>)]

\* The entry of A is no key of its files, and is a name that every object
\* inherits.
RegistryInherited ==
    [n \in {N_main, N_A} |->
        IF n = N_main
        THEN ModuleDefinition(Files1(P_a, JsSource({N_A})), P_a,
                 MessagesObject(Messages1("greeting", "main")), <<>>)
        ELSE ModuleDefinition(Files1(P_a, JsSource({})), N_toString,
                 MessagesObject(Messages1("greeting", "A")), <<>>)]

\* req.body: the modules and mainModule ( = 'main' when omitted ).
RequestBodies ==
    {[modules |-> RegistryBasic, mainModule |-> N_main],
     [modules |-> RegistryBasic, mainModule |-> N_zz],
     [modules |-> RegistryDependencies, mainModule |-> N_main],
     [modules |-> RegistryBroken, mainModule |-> N_main],
     [modules |-> RegistryBroken, mainModule |-> N_B],
     [modules |-> RegistryBroken, mainModule |-> N_C],
     [modules |-> RegistryCycle, mainModule |-> N_main],
     [modules |-> RegistryBuiltinCycle, mainModule |-> N_main],
     [modules |-> RegistryRetry, mainModule |-> N_main],
     [modules |-> RegistryMarkup, mainModule |-> N_main],
     [modules |-> RegistryInherited, mainModule |-> N_main]}

\* Every argument a require() call of the request bodies is written with.
RequireArguments ==
    UNION {UNION {UNION {body.modules[n].files[p].requires :
                           p \in DOMAIN body.modules[n].files} :
                    n \in DOMAIN body.modules} :
             body \in RequestBodies}

(***************************************************************************)
(*                               Bounds                                    *)
(***************************************************************************)

\* require() calls the scripts of one request make.
MaxRequires == 2
\* Assignments to module.exports the scripts of one request make.
MaxAssigned == 1
\* Nested calls of executeModule and executeFile (the engine's call stack).
MaxDepth == 6
\* The lengths of the strings resolveRelativePath is called with on its own.
MaxRelativeLen == 6
MaxBaseLen == 5
\* The requests the server handles at the same time.
MaxRequests == 2
\* The lengths of the format string and of the parameters format is called
\* with on its own.
MaxFormatLen == 5
MaxParameters == 2

(***************************************************************************)
(*                               State                                     *)
(***************************************************************************)

VARIABLES
    modules,            \* req.body.modules, requestContext.modules
    mainModule,         \* req.body.mainModule
    phase,              \* where the /render handler is
    moduleExportsCache, \* requestContext.moduleExportsCache
    messageMap,         \* requestContext.messageMap
    contexts,           \* the ModuleExecutionContext objects created so far
    stack,              \* the calls of executeModule and executeFile in progress
    ret,                \* what the call that just ended returned or threw
    heap,               \* the properties of the objects allocated so far
    assigned,           \* objects the scripts assigned to module.exports so far
    requires,           \* require() calls made so far
    mainExport,         \* the handler's mainExport, or the error that ended it
    log,                \* history: what the loader did, in order
    relativePath,       \* the arguments and the result of a call of
    basePath,           \*   resolveRelativePath on its own
    resolved,
    bodies,             \* req.body of each of the requests handled together
    served,             \* how far the handler is with each of them, and its locals
    globalObject,       \* the properties scripts have set on the global object
    formatString,       \* the arguments and the result of a call of format
    parameters,         \*   on its own
    formatted

loaderVars ==
    <<modules, mainModule, phase, moduleExportsCache, messageMap, contexts,
      stack, ret, heap, assigned, requires, mainExport, log>>
pathVars == <<relativePath, basePath, resolved>>
requestVars == <<bodies, served, globalObject>>
formatVars == <<formatString, parameters, formatted>>
\* What the loading of one request leaves alone.
sideVars == <<pathVars, requestVars, formatVars>>
vars == <<loaderVars, sideVars>>

\* A call of executeModule( requestContext, moduleName ) in progress.
ModuleFrame(moduleName) ==
    [fn |-> "executeModule", pc |-> "call", moduleName |-> moduleName, i |-> 0,
     context |-> 0, path |-> <<>>, exports |-> Undefined, parsedSFC |-> FALSE,
     fileName |-> <<>>, got |-> {}]

\* A call of executeFile( context, path ) in progress: exports is the object
\* moduleObj.exports is created with, fileName the argument of the require()
\* the script waits for, got the values its require() calls returned.
FileFrame(context, path) ==
    [fn |-> "executeFile", pc |-> "call", moduleName |-> <<>>, i |-> 0,
     context |-> context, path |-> path, exports |-> Undefined,
     parsedSFC |-> FALSE, fileName |-> <<>>, got |-> {}]

Top == stack[Len(stack)]
SetTop(frame) == [stack EXCEPT ![Len(stack)] = frame]
Returned == Pop(stack)

Running(fn, pc) ==
    /\ phase = "loading"
    /\ Len(stack) > 0
    /\ Top.fn = fn
    /\ Top.pc = pc

\* The files a loader with one file set for the whole request would read:
\* those of the main module, whatever the context.
FilesOfMainModule(context) == modules[mainModule].files

\* context.files
FilesOf(context) == modules[contexts[context].moduleName].files

(***************************************************************************)
(*                          History events                                 *)
(***************************************************************************)

E_load(moduleName) == <<"load", moduleName>>
E_loaded(moduleName, r) == <<"loaded", moduleName, r>>
E_merge(moduleName) == <<"merge", moduleName>>
E_entry(moduleName, context) == <<"entry", moduleName, context>>
E_memo(moduleName, context, v) == <<"memo", moduleName, context, v>>
E_start(context, path) == <<"start", context, path>>
E_end(context, path, v) == <<"end", context, path, v>>
E_cache(context, path, v) == <<"cache", context, path, v>>
E_raised(context, path, e) == <<"raised", context, path, e>>
E_require(context, path, fileName) == <<"require", context, path, fileName>>
E_result(context, path, fileName, r) == <<"result", context, path, fileName, r>>

(***************************************************************************)
(*                   The /render handler, up to the load                   *)
(***************************************************************************)

Init ==
    /\ \E body \in RequestBodies :
        /\ modules = body.modules
        /\ mainModule = body.mainModule
    /\ phase = "received"
    /\ moduleExportsCache = EmptyMap
    /\ messageMap = EmptyMap
    /\ contexts = <<>>
    /\ stack = <<>>
    /\ ret = NoReturn
    /\ heap = <<>>
    /\ assigned = 0
    /\ requires = 0
    /\ mainExport = NoReturn
    /\ log = <<>>
    /\ relativePath = <<>>
    /\ basePath = <<>>
    /\ resolved = NotCalled
    /\ bodies = <<>>
    /\ served = <<>>
    /\ globalObject = EmptyMap
    /\ formatString = <<>>
    /\ parameters = <<>>
    /\ formatted = NotCalled

\* moduleExportsCache: { ...builtinModules }: the own properties are copied.
SeededModuleExportsCache == [n \in DOMAIN builtinModules |-> builtinModules[n]]

\* The handler builds the request context and calls
\* executeModule( requestContext, mainModule ).
Render ==
    /\ phase = "received"
    /\ phase' = "loading"
    /\ moduleExportsCache' = SeededModuleExportsCache
    /\ messageMap' = EmptyMap
    /\ stack' = <<ModuleFrame(mainModule)>>
    /\ UNCHANGED <<modules, mainModule, contexts, ret, heap, assigned, requires,
                   mainExport, log, sideVars>>

\* executeModule returned to the handler: mainExport is set and rendering
\* begins; or it threw, and the error leaves the handler.
RenderLoaded ==
    /\ phase = "loading"
    /\ Len(stack) = 0
    /\ ret.kind # "none"
    /\ phase' = IF ret.kind = "value" THEN "rendering" ELSE "failed"
    /\ mainExport' = ret
    /\ ret' = NoReturn
    /\ UNCHANGED <<modules, mainModule, moduleExportsCache, messageMap, contexts,
                   stack, heap, assigned, requires, log, sideVars>>

(***************************************************************************)
(*                            executeModule                                *)
(***************************************************************************)

\* A loader without the module exports cache finds no module in it.
ModuleIsNeverCached(moduleName) == FALSE

\* hasOwn.call( requestContext.moduleExportsCache, moduleName )
ModuleIsCached(moduleName) == hasOwn(moduleExportsCache, moduleName)

\* A merge in which the text a key already has is kept.
addMessagesKeepingEarlier(map, messages) ==
    [k \in DOMAIN map \cup DOMAIN messages.entries |->
        IF k \in DOMAIN map THEN map[k] ELSE messages.entries[k]]

\* addMessages( messageMap, messages ): messageMap.set( k, v ) for every
\* entry of the decoded messages.
addMessages(map, messages) ==
    [k \in DOMAIN map \cup DOMAIN messages.entries |->
        IF k \in DOMAIN messages.entries THEN messages.entries[k] ELSE map[k]]

\* A loader that does not load what a module declares.
DependenciesIgnored(def) == <<>>

\* const { ..., dependencies = [] } = requestContext.modules[ moduleName ]
DependenciesOf(def) == def.dependencies

\* The dependencies loop from its i-th round on, then the context, the
\* messages and the call of executeFile( context, entry ).
ModuleProceed(i, pre) ==
    LET moduleName == Top.moduleName
        def == modules[moduleName]
    IN
    IF i <= Len(DependenciesOf(def))
    THEN /\ Len(stack) < MaxDepth
         /\ stack' = Append(SetTop([Top EXCEPT !.pc = "dependencies", !.i = i]),
                            ModuleFrame(DependenciesOf(def)[i]))
         /\ ret' = NoReturn
         /\ log' = log \o pre
         /\ UNCHANGED <<moduleExportsCache, messageMap, contexts, heap, assigned,
                        requires>>
    ELSE /\ contexts' = Append(contexts,
                [moduleName |-> moduleName, fileExportsCache |-> EmptyMap])
         /\ IF ~def.messages.valid
            THEN /\ stack' = Returned
                 /\ ret' = Throw(Err("SyntaxError", moduleName))
                 /\ log' = log \o pre \o <<E_loaded(moduleName, ret')>>
                 /\ UNCHANGED messageMap
            ELSE /\ Len(stack) < MaxDepth
                 /\ messageMap' = addMessages(messageMap, def.messages)
                 /\ stack' = Append(
                        SetTop([Top EXCEPT !.pc = "entry", !.i = i,
                                           !.context = Len(contexts) + 1]),
                        FileFrame(Len(contexts) + 1, def.entry))
                 /\ ret' = NoReturn
                 /\ log' = log \o pre \o <<E_merge(moduleName),
                                           E_entry(moduleName, Len(contexts) + 1)>>
         /\ UNCHANGED <<moduleExportsCache, heap, assigned, requires>>

\* executeModule is called: the cached export is returned, or the
\* definition is read (a TypeError when requestContext.modules has none:
\* undefined cannot be destructured) and the dependencies loop begins.
ExecuteModuleCall ==
    /\ Running("executeModule", "call")
    /\ ret.kind = "none"
    /\ LET moduleName == Top.moduleName IN
       IF ModuleIsCached(moduleName)
       THEN /\ stack' = Returned
            /\ ret' = ReturnValue(moduleExportsCache[moduleName])
            /\ log' = log \o <<E_load(moduleName), E_loaded(moduleName, ret')>>
            /\ UNCHANGED <<moduleExportsCache, messageMap, contexts, heap,
                           assigned, requires>>
       ELSE IF ~hasOwn(modules, moduleName)
       THEN /\ stack' = Returned
            /\ ret' = Throw(Err("TypeError", moduleName))
            /\ log' = log \o <<E_load(moduleName), E_loaded(moduleName, ret')>>
            /\ UNCHANGED <<moduleExportsCache, messageMap, contexts, heap,
                           assigned, requires>>
       ELSE ModuleProceed(1, <<E_load(moduleName)>>)
    /\ UNCHANGED <<modules, mainModule, phase, mainExport, sideVars>>

\* A dependency's executeModule returned (the loop goes on) or threw (the
\* error leaves executeModule).
ExecuteModuleDependencyReturned ==
    /\ Running("executeModule", "dependencies")
    /\ ret.kind # "none"
    /\ IF ret.kind = "throw"
       THEN /\ stack' = Returned
            /\ log' = Append(log, E_loaded(Top.moduleName, ret))
            /\ UNCHANGED <<moduleExportsCache, messageMap, contexts, heap,
                           assigned, requires, ret>>
       ELSE ModuleProceed(Top.i + 1, <<>>)
    /\ UNCHANGED <<modules, mainModule, phase, mainExport, sideVars>>

\* A loader that does not keep the export of a module.
ModuleExportNotStored(moduleName, v) == moduleExportsCache

\* requestContext.moduleExportsCache[ moduleName ] = executeFile( ... )
StoreModuleExport(moduleName, v) == Put(moduleExportsCache, moduleName, v)

\* executeFile( context, entry ) returned: the export is cached and the
\* cache's entry returned; or it threw, and the error leaves executeModule.
ExecuteModuleEntryReturned ==
    /\ Running("executeModule", "entry")
    /\ ret.kind # "none"
    /\ stack' = Returned
    /\ IF ret.kind = "throw"
       THEN /\ log' = Append(log, E_loaded(Top.moduleName, ret))
            /\ UNCHANGED <<moduleExportsCache, ret>>
       ELSE /\ moduleExportsCache' = StoreModuleExport(Top.moduleName, ret.v)
            /\ ret' = ReturnValue(Get(moduleExportsCache', Top.moduleName))
            /\ log' = log \o <<E_memo(Top.moduleName, Top.context, ret.v),
                               E_loaded(Top.moduleName, ret')>>
    /\ UNCHANGED <<modules, mainModule, phase, messageMap, contexts, heap,
                   assigned, requires, mainExport, sideVars>>

(***************************************************************************)
(*                             executeFile                                 *)
(***************************************************************************)

\* context.files[ path ] when it is no string: the value supplied for the
\* path; when files has no such key, what the object inherits under that
\* name (files is an object of the parsed request body), else undefined.
FilesGet(files, moduleName, path) ==
    IF hasOwn(files, path) THEN FileValue(moduleName, path)
    ELSE IF path \in ObjectPrototypeNames THEN Inherited(path)
    ELSE Undefined

\* path.endsWith( '.vue' ) && code.trim().startsWith( '<' )
IsSFC(path, code) == EndsWith(path, <<".", "v", "u", "e">>) /\ StartsWith(Trim(code.text), <<"<">>)

\* context.fileExportsCache[ path ] = result
StoreFileExport(context, path, result) ==
    [contexts EXCEPT ![context].fileExportsCache = Put(@, path, result)]

\* executeFile is called.  A string is run as a script with a fresh
\* moduleObj = { exports: {} }, for an SFC the script of the descriptor,
\* whatever errors the parse reports (a TypeError when the descriptor has
\* no script: the content of null is read); anything else (undefined too,
\* when files has no such property) is the result as it is, cached and
\* returned.
ExecuteFileCall ==
    /\ Running("executeFile", "call")
    /\ LET context == Top.context
           path == Top.path
           files == FilesOf(context)
       IN
       IF /\ hasOwn(files, path)
          /\ files[path].type = "string"
          /\ IsSFC(path, files[path])
          /\ ~files[path].script
       THEN /\ stack' = Returned
            /\ ret' = Throw(Err("TypeError", path))
            /\ log' = Append(log, E_raised(context, path, ret'.v))
            /\ UNCHANGED <<contexts, heap>>
       ELSE IF hasOwn(files, path) /\ files[path].type = "string"
       THEN /\ heap' = Append(heap, {})
            /\ stack' = SetTop([Top EXCEPT !.pc = "script",
                                           !.exports = Obj(Len(heap) + 1),
                                           !.parsedSFC = IsSFC(path, files[path])])
            /\ log' = Append(log, E_start(context, path))
            /\ UNCHANGED <<contexts, ret>>
       ELSE LET result == FilesGet(files, contexts[context].moduleName, path)
            IN  /\ contexts' = StoreFileExport(context, path, result)
                /\ stack' = Returned
                /\ ret' = ReturnValue(result)
                /\ log' = Append(log, E_cache(context, path, result))
                /\ UNCHANGED heap
    /\ UNCHANGED <<modules, mainModule, phase, moduleExportsCache, messageMap,
                   assigned, requires, mainExport, sideVars>>

\* What the script may leave in moduleObj.exports: the object it was
\* created with or, assigned by the script, a new object or a value one of
\* its require() calls returned.
AssignableExports(frame) == {Obj(Len(heap) + 1)} \cup frame.got

\* The result of a loader that reads the exports argument of the script
\* instead of moduleObj.exports.
ScriptResultOfExports(exports, moduleObjExports) == exports

\* result = moduleObj.exports, where exports is still the object
\* moduleObj.exports was created with.
ScriptResult(exports, moduleObjExports) == moduleObjExports

\* Whether the descriptor of the SFC a call executes has a template.
SfcTemplate(frame) == FilesOf(frame.context)[frame.path].template

\* The script ends with v in moduleObj.exports.  The template of an SFC is
\* set on it (a TypeError when it is undefined, or when the descriptor has
\* no template); it is the result, cached and returned.
ExecuteFileFinish(v) ==
    /\ Running("executeFile", "script")
    /\ v \in {Top.exports} \cup AssignableExports(Top)
    /\ v # Top.exports => assigned < MaxAssigned
    /\ assigned' = IF v = Top.exports THEN assigned ELSE assigned + 1
    /\ stack' = Returned
    /\ LET allocated == IF v = Obj(Len(heap) + 1) THEN Append(heap, {}) ELSE heap
           result == ScriptResult(Top.exports, v)
       IN
       IF Top.parsedSFC /\ (v = Undefined \/ ~SfcTemplate(Top))
       THEN /\ ret' = Throw(Err("TypeError", Top.path))
            /\ log' = log \o <<E_end(Top.context, Top.path, v),
                               E_raised(Top.context, Top.path, ret'.v)>>
            /\ heap' = allocated
            /\ UNCHANGED contexts
       ELSE /\ heap' = IF Top.parsedSFC /\ IsObj(v)
                       THEN [allocated EXCEPT ![v[2]] = @ \cup {"template"}]
                       ELSE allocated
            /\ contexts' = StoreFileExport(Top.context, Top.path, result)
            /\ ret' = ReturnValue(result)
            /\ log' = log \o <<E_end(Top.context, Top.path, v),
                               E_cache(Top.context, Top.path, result)>>
    /\ UNCHANGED <<modules, mainModule, phase, moduleExportsCache, messageMap,
                   requires, mainExport, sideVars>>

(***************************************************************************)
(*                  makeRequireFunction and the scripts                    *)
(***************************************************************************)

\* What the function makeRequireFunction( context, path ) returns does with
\* fileName, up to the call it ends with: it returns v, throws v, or
\* returns what executeModule( requestContext, callee ) or
\* executeFile( context, callee ) returns.
RequireReturn(v) == [do |-> "return", v |-> v, callee |-> <<>>]
RequireThrow(e) == [do |-> "throw", v |-> e, callee |-> <<>>]
RequireModule(name) == [do |-> "executeModule", v |-> Undefined, callee |-> name]
RequireFile(path) == [do |-> "executeFile", v |-> Undefined, callee |-> path]

require(context, path, fileName) ==
    LET resolvedFileName == resolveRelativePath(fileName, path) IN
    IF resolvedFileName = Null
    THEN IF InBuiltinModules(fileName)
         THEN RequireReturn(BuiltinModulesGet(fileName))
         ELSE IF hasOwn(modules, fileName)
         THEN RequireModule(fileName)
         ELSE RequireThrow(Err("UnknownModule", fileName))
    ELSE IF ~hasOwn(FilesOf(context), resolvedFileName)
         THEN RequireThrow(Err("UnknownFile", fileName))
         ELSE IF hasOwn(contexts[context].fileExportsCache, resolvedFileName)
         THEN RequireReturn(contexts[context].fileExportsCache[resolvedFileName])
         ELSE RequireFile(resolvedFileName)

\* The running script calls require( fileName ).
ScriptRequire(fileName) ==
    /\ Running("executeFile", "script")
    /\ fileName \in FilesOf(Top.context)[Top.path].requires
    /\ requires < MaxRequires
    /\ requires' = requires + 1
    /\ log' = Append(log, E_require(Top.context, Top.path, fileName))
    /\ LET r == require(Top.context, Top.path, fileName)
           waiting == SetTop([Top EXCEPT !.pc = "require", !.fileName = fileName])
       IN  CASE r.do = "return" ->
                  /\ stack' = waiting
                  /\ ret' = ReturnValue(r.v)
             [] r.do = "throw" ->
                  /\ stack' = waiting
                  /\ ret' = Throw(r.v)
             [] r.do = "executeModule" ->
                  /\ Len(stack) < MaxDepth
                  /\ stack' = Append(waiting, ModuleFrame(r.callee))
                  /\ ret' = NoReturn
             [] r.do = "executeFile" ->
                  /\ Len(stack) < MaxDepth
                  /\ stack' = Append(waiting, FileFrame(Top.context, r.callee))
                  /\ ret' = NoReturn
    /\ UNCHANGED <<modules, mainModule, phase, moduleExportsCache, messageMap,
                   contexts, heap, assigned, mainExport, sideVars>>

\* require() returned a value to the script, or threw and the script
\* caught the error: the script goes on.
ScriptRequireReturned ==
    /\ Running("executeFile", "require")
    /\ ret.kind # "none"
    /\ stack' = SetTop([Top EXCEPT !.pc = "script",
                                   !.got = IF ret.kind = "value" THEN @ \cup {ret.v}
                                           ELSE @])
    /\ ret' = NoReturn
    /\ log' = Append(log, E_result(Top.context, Top.path, Top.fileName, ret))
    /\ UNCHANGED <<modules, mainModule, phase, moduleExportsCache, messageMap,
                   contexts, heap, assigned, requires, mainExport, sideVars>>

\* require() threw and the script does not catch the error: it leaves
\* executeFile, which caches nothing.
ScriptRequireThrew ==
    /\ Running("executeFile", "require")
    /\ ret.kind = "throw"
    /\ stack' = Returned
    /\ log' = log \o <<E_result(Top.context, Top.path, Top.fileName, ret),
                       E_raised(Top.context, Top.path, ret.v)>>
    /\ UNCHANGED <<modules, mainModule, phase, moduleExportsCache, messageMap,
                   contexts, ret, heap, assigned, requires, mainExport, sideVars>>

\* The script throws an error of its own.
ScriptThrow ==
    /\ Running("executeFile", "script")
    /\ stack' = Returned
    /\ ret' = Throw(Err("ExecutionError", Top.path))
    /\ log' = Append(log, E_raised(Top.context, Top.path, ret'.v))
    /\ UNCHANGED <<modules, mainModule, phase, moduleExportsCache, messageMap,
                   contexts, heap, assigned, requires, mainExport, sideVars>>

(***************************************************************************)
(*                           Specification                                 *)
(***************************************************************************)

Next ==
    \/ Render
    \/ RenderLoaded
    \/ ExecuteModuleCall
    \/ ExecuteModuleDependencyReturned
    \/ ExecuteModuleEntryReturned
    \/ ExecuteFileCall
    \/ \E v \in {Obj(n) : n \in 1..(Len(heap) + 1)} \cup {Undefined, Vue}
                \cup {Inherited(n) : n \in ObjectPrototypeNames}
                \cup {FileValue(n, P_sb) : n \in {N_A}} :
           ExecuteFileFinish(v)
    \/ \E fileName \in RequireArguments : ScriptRequire(fileName)
    \/ ScriptRequireReturned
    \/ ScriptRequireThrew
    \/ ScriptThrow

Spec == Init /\ [][Next]_vars

\* The load is one synchronous call: the engine runs it on until it has
\* returned or thrown.
SpecFair == Spec /\ WF_vars(Next)

(***************************************************************************)
(*                    resolveRelativePath on its own                       *)
(***************************************************************************)

\* The strings over an alphabet, up to a length.
Strings(alphabet, n) == UNION {[1..k -> alphabet] : k \in 0..n}

RelativePathAlphabet == {".", "/", "a", "\n"}
BasePathAlphabet == {"/", "a"}

InitPath ==
    /\ relativePath \in Strings(RelativePathAlphabet, MaxRelativeLen)
    /\ basePath \in Strings(BasePathAlphabet, MaxBaseLen)
    /\ resolved = NotCalled
    /\ bodies = <<>>
    /\ served = <<>>
    /\ globalObject = EmptyMap
    /\ formatString = <<>>
    /\ parameters = <<>>
    /\ formatted = NotCalled
    /\ modules = RegistryBasic
    /\ mainModule = N_main
    /\ phase = "received"
    /\ moduleExportsCache = EmptyMap
    /\ messageMap = EmptyMap
    /\ contexts = <<>>
    /\ stack = <<>>
    /\ ret = NoReturn
    /\ heap = <<>>
    /\ assigned = 0
    /\ requires = 0
    /\ mainExport = NoReturn
    /\ log = <<>>

Resolve ==
    /\ resolved = NotCalled
    /\ resolved' = resolveRelativePath(relativePath, basePath)
    /\ UNCHANGED <<relativePath, basePath, loaderVars, requestVars, formatVars>>

NextPath == Resolve

SpecPath == InitPath /\ [][NextPath]_vars

(***************************************************************************)
(*                     Requests handled together                           *)
(***************************************************************************)
(* The /render handler runs without a pause from the request body to its   *)
(* await of renderToString: one request is loaded as a whole between the   *)
(* steps of the others.  Each request here has one module, main, with one  *)
(* file and one message.  The script of that file is run by                *)
(* new Function( ..., 'with(window){' + code + '}' ): a name that is no    *)
(* property of the request's mockWindow is looked up, and in sloppy mode   *)
(* created, on the global object of the server process.                    *)
(***************************************************************************)

Requests == 1..MaxRequests

\* What the script of main's entry is:
\*   "exports"  module.exports = { seen: 'none' }
\*   "writes"   shared = <token>; module.exports = { seen: 'none' }
\*   "reads"    module.exports =
\*                  { seen: typeof shared === 'undefined' ? 'none' : shared }
ScriptKinds == {"exports", "writes", "reads"}
Tokens == {"x", "y"}

\* req.body, by the script of main's entry and the text of its message.
RenderBodies == [script : ScriptKinds, token : Tokens]

MessagesOfBody(body) == MessagesObject(Messages1("greeting", body.token))

\* The global object after the script of body has run on it.
GlobalAfterScript(global, body) ==
    IF body.script = "writes" THEN Put(global, "shared", body.token) ELSE global

\* What the script of body leaves in module.exports, run on global.
ExportOfScript(global, body) ==
    [seen |-> IF body.script = "reads" /\ hasOwn(global, "shared")
              THEN global["shared"]
              ELSE "none"]

\* The handler's locals before the request is handled.
Waiting ==
    [phase |-> "waiting", moduleExportsCache |-> EmptyMap,
     messageMap |-> EmptyMap, mainExport |-> [seen |-> "none"],
     html |-> <<>>]

InitRequests ==
    /\ bodies \in [Requests -> RenderBodies]
    /\ served = [r \in Requests |-> Waiting]
    /\ globalObject = EmptyMap
    /\ relativePath = <<>>
    /\ basePath = <<>>
    /\ resolved = NotCalled
    /\ formatString = <<>>
    /\ parameters = <<>>
    /\ formatted = NotCalled
    /\ modules = RegistryBasic
    /\ mainModule = N_main
    /\ phase = "received"
    /\ moduleExportsCache = EmptyMap
    /\ messageMap = EmptyMap
    /\ contexts = <<>>
    /\ stack = <<>>
    /\ ret = NoReturn
    /\ heap = <<>>
    /\ assigned = 0
    /\ requires = 0
    /\ mainExport = NoReturn
    /\ log = <<>>

\* The handler of request r, up to its await: a new messageMap, a
\* requestContext with a seeded moduleExportsCache, executeModule of main
\* (its messages added, its entry's script run, its export cached), and the
\* call of renderToString.
HandleRender(r) ==
    /\ served[r].phase = "waiting"
    /\ LET body == bodies[r]
           result == ExportOfScript(globalObject, body)
       IN  /\ globalObject' = GlobalAfterScript(globalObject, body)
           /\ served' = [served EXCEPT ![r] =
                  [phase |-> "rendering",
                   moduleExportsCache |->
                       Put(SeededModuleExportsCache, N_main, result),
                   messageMap |-> addMessages(EmptyMap, MessagesOfBody(body)),
                   mainExport |-> result,
                   html |-> <<>>]]
    /\ UNCHANGED <<bodies, loaderVars, pathVars, formatVars>>

\* renderToString of request r is done: the component, which shows the
\* export's seen and its greeting message, is sent as html.
Respond(r) ==
    /\ served[r].phase = "rendering"
    /\ served' = [served EXCEPT ![r] =
           [@ EXCEPT !.phase = "responded",
                     !.html = <<served[r].mainExport.seen,
                                served[r].messageMap["greeting"]>>]]
    /\ UNCHANGED <<bodies, globalObject, loaderVars, pathVars, formatVars>>

NextRequests ==
    \/ \E r \in Requests : HandleRender(r)
    \/ \E r \in Requests : Respond(r)

SpecRequests == InitRequests /\ [][NextRequests]_vars

(***************************************************************************)
(*                  format of mwMessage on its own                         *)
(***************************************************************************)

Digits == {"0", "1", "2", "3", "4", "5", "6", "7", "8", "9"}

DigitValue(d) ==
    CASE d = "0" -> 0 [] d = "1" -> 1 [] d = "2" -> 2 [] d = "3" -> 3
      [] d = "4" -> 4 [] d = "5" -> 5 [] d = "6" -> 6 [] d = "7" -> 7
      [] d = "8" -> 8 [] d = "9" -> 9

\* parseInt( match, 10 ) of a string of digits.
RECURSIVE ParseInt(_)
ParseInt(match) ==
    IF Len(match) = 0 THEN 0
    ELSE 10 * ParseInt(SubSeq(match, 1, Len(match) - 1))
         + DigitValue(match[Len(match)])

\* '$' + ( i + 1 ): the number as a string, for the numbers below 100.
NumberToString(n) ==
    LET digit(k) == CHOOSE d \in Digits : DigitValue(d) = k
    IN  IF n < 10 THEN <<digit(n)>> ELSE <<digit(n \div 10), digit(n % 10)>>

\* formatString.indexOf( sub ), from position i on: the first position
\* where sub is found, 0 when nowhere.
RECURSIVE IndexOfFrom(_, _, _)
IndexOfFrom(s, sub, i) ==
    IF i + Len(sub) - 1 > Len(s) THEN 0
    ELSE IF SubSeq(s, i, i + Len(sub) - 1) = sub THEN i
    ELSE IndexOfFrom(s, sub, i + 1)

\* parameters.map( ( _, i ) => '$' + ( i + 1 ) ).join( ', ' ), from the
\* i-th on.
RECURSIVE ParameterList(_, _)
ParameterList(n, i) ==
    IF i > n THEN <<>>
    ELSE <<"$">> \o NumberToString(i)
         \o (IF i < n THEN <<",", " ">> ELSE <<>>)
         \o ParameterList(n, i + 1)

\* The first '$*' of formatString is replaced by ': $1, $2, ...', one for
\* each parameter, or by nothing when there are no parameters.  (The
\* replacement is a string for String.prototype.replace, where $1, $2 stand
\* for themselves as the pattern has no groups.)
internalDoTransformFormatForQqx(string, params) ==
    LET at == IndexOfFrom(string, <<"$", "*">>, 1)
        replacement == IF Len(params) > 0
                       THEN <<":", " ">> \o ParameterList(Len(params), 1)
                       ELSE <<>>
    IN  IF at # 0
        THEN SubSeq(string, 1, at - 1) \o replacement
             \o SubSeq(string, at + 2, Len(string))
        ELSE string

\* Where the digits that begin at position i of s end.
RECURSIVE DigitsEnd(_, _)
DigitsEnd(s, i) ==
    IF i < Len(s) /\ s[i + 1] \in Digits THEN DigitsEnd(s, i + 1) ELSE i

\* The index when the parameters are counted from 0 in the text too.
ParameterIndexFromZero(match) == ParseInt(match)

\* var index = parseInt( match, 10 ) - 1
ParameterIndex(match) == ParseInt(match) - 1

\* The function replace is called with: parameters[ index ] when it is not
\* undefined, else '$' + match.
Replacement(match, params) ==
    LET index == ParameterIndex(match) IN
    IF index + 1 \in 1..Len(params) /\ params[index + 1] # Undefined
    THEN params[index + 1]
    ELSE <<"$">> \o match

\* string.replace( /\$(\d+)/g, ... ), from position i on.
RECURSIVE ReplaceFrom(_, _, _)
ReplaceFrom(s, i, params) ==
    IF i > Len(s) THEN <<>>
    ELSE IF s[i] = "$" /\ i < Len(s) /\ s[i + 1] \in Digits
    THEN Replacement(SubSeq(s, i + 1, DigitsEnd(s, i + 1)), params)
         \o ReplaceFrom(s, DigitsEnd(s, i + 1) + 1, params)
    ELSE <<s[i]>> \o ReplaceFrom(s, i + 1, params)

format(string, params) ==
    ReplaceFrom(internalDoTransformFormatForQqx(string, params), 1, params)

FormatAlphabet == {"$", "0", "1", "*", "a"}
ParameterValues == {<<"x">>, <<"$", "1">>, Undefined}

InitFormat ==
    /\ formatString \in Strings(FormatAlphabet, MaxFormatLen)
    /\ parameters \in UNION {[1..k -> ParameterValues] : k \in 0..MaxParameters}
    /\ formatted = NotCalled
    /\ bodies = <<>>
    /\ served = <<>>
    /\ globalObject = EmptyMap
    /\ relativePath = <<>>
    /\ basePath = <<>>
    /\ resolved = NotCalled
    /\ modules = RegistryBasic
    /\ mainModule = N_main
    /\ phase = "received"
    /\ moduleExportsCache = EmptyMap
    /\ messageMap = EmptyMap
    /\ contexts = <<>>
    /\ stack = <<>>
    /\ ret = NoReturn
    /\ heap = <<>>
    /\ assigned = 0
    /\ requires = 0
    /\ mainExport = NoReturn
    /\ log = <<>>

Format ==
    /\ formatted = NotCalled
    /\ formatted' = format(formatString, parameters)
    /\ UNCHANGED <<formatString, parameters, loaderVars, pathVars, requestVars>>

NextFormat == Format

SpecFormat == InitFormat /\ [][NextFormat]_vars

(***************************************************************************)
(*                      Reading the history                                *)
(***************************************************************************)

LogIndices == 1..Len(log)

\* How many events of the history satisfy P.
Count(P(_)) == Cardinality({k \in LogIndices : P(log[k])})

Is(e, tag) == e[1] = tag

\* The module a context was created for.
ModuleOf(context) == contexts[context].moduleName

\* The contexts and paths of the request.
ContextIds == 1..Len(contexts)
PathsOf(context) == DOMAIN FilesOf(context) \cup {modules[ModuleOf(context)].entry}

\* A require() argument that starts with ./ or ../
IsRelative(fileName) ==
    StartsWith(fileName, <<".", "/">>) \/ StartsWith(fileName, <<".", ".", "/">>)

(***************************************************************************)
(* C1.  Within one module load a file's script starts executing at most    *)
(* once, whatever the relative require() calls among the module's files.   *)
(* The code caches a file's export only after its script has ended, so a   *)
(* file required again while it is still executing (by itself, or around a *)
(* cycle of files) starts again.                                           *)
(***************************************************************************)
FileStarts(context, path) ==
    Cardinality({k \in LogIndices : log[k] = E_start(context, path)})

C1_FileStartsAtMostOnce ==
    \A context \in ContextIds : \A path \in PathsOf(context) :
        FileStarts(context, path) <= 1

(***************************************************************************)
(* C2.  Within one request the entry file of a module starts executing at  *)
(* most once, however often and whenever the module is declared, required  *)
(* or loaded.  The code caches a module's export only after its entry has  *)
(* ended, so a module required while its own load is in progress is loaded *)
(* and its entry started again.                                            *)
(***************************************************************************)
\* executeModule started the entry script of moduleName at event k.
EntryStartedAt(moduleName, k) ==
    /\ k < Len(log)
    /\ Is(log[k], "entry")
    /\ log[k][2] = moduleName
    /\ log[k + 1] = E_start(log[k][3], modules[moduleName].entry)

EntryStarts(moduleName) ==
    Cardinality({k \in LogIndices : EntryStartedAt(moduleName, k)})

C2_EntryStartsAtMostOnce ==
    \A moduleName \in DOMAIN modules : EntryStarts(moduleName) <= 1

(***************************************************************************)
(* C3.  Any two relative requires of one module load that resolve to the   *)
(* same path and return a value return the identical export, the load of   *)
(* the entry file by executeModule included.  In the code a file that      *)
(* requires itself gets the export of its nested execution, and its own,   *)
(* different export is what is cached and returned in the end.             *)
(***************************************************************************)
\* The values returned for path in context: by relative requires that
\* resolve to it and by executeFile( context, entry ) to executeModule.
ReturnedFor(context, path) ==
    {log[k][5].v : k \in {j \in LogIndices :
        /\ Is(log[j], "result")
        /\ log[j][2] = context
        /\ log[j][5].kind = "value"
        /\ resolveRelativePath(log[j][4], log[j][3]) = path}}
    \cup
    {log[k][4] : k \in {j \in LogIndices :
        /\ Is(log[j], "memo")
        /\ log[j][3] = context
        /\ modules[log[j][2]].entry = path}}

C3_SameExportReference ==
    \A context \in ContextIds : \A path \in PathsOf(context) :
        Cardinality(ReturnedFor(context, path)) <= 1

(***************************************************************************)
(* C4.  As claimed: loading a module with declared dependencies d1 .. dn   *)
(* makes d1's entry execute, then d2's, ..., each with its messages        *)
(* merged, before the module's own entry starts, and each dependency's     *)
(* entry executes exactly once per request.  (Stated for dependencies      *)
(* that are declared, are no built-in names and have source entries, and   *)
(* for runs in which no entry has started twice, so that a violation does  *)
(* not rest on what C2 is about.)  A dependency that was loaded before, as *)
(* a dependency of an earlier one, is not executed in its turn: with main  *)
(* declaring [A, B] and A declaring [B], B's entry executes before A's.    *)
(***************************************************************************)
Dependencies(moduleName) == modules[moduleName].dependencies

HasSourceEntry(moduleName) ==
    /\ hasOwn(modules, moduleName)
    /\ hasOwn(modules[moduleName].files, modules[moduleName].entry)
    /\ modules[moduleName].files[modules[moduleName].entry].type = "string"

\* The entries of deps[i], deps[i + 1], ... each start, right after the
\* module's messages are merged, in this order between events from and k.
RECURSIVE EntriesInOrder(_, _, _, _)
EntriesInOrder(deps, i, from, k) ==
    \/ i > Len(deps)
    \/ \E j \in from..(k - 1) :
        /\ EntryStartedAt(deps[i], j)
        /\ j > 1
        /\ log[j - 1] = E_merge(deps[i])
        /\ EntriesInOrder(deps, i + 1, j + 1, k)

C4_DependenciesExecuteInOrderOnce ==
    \A moduleName \in DOMAIN modules : \A k \in LogIndices :
        (/\ EntryStartedAt(moduleName, k)
         /\ C2_EntryStartsAtMostOnce
         /\ \A i \in 1..Len(Dependencies(moduleName)) :
              /\ HasSourceEntry(Dependencies(moduleName)[i])
              /\ ~InBuiltinModules(Dependencies(moduleName)[i]))
        => /\ EntriesInOrder(Dependencies(moduleName), 1, 1, k)
           /\ \A i \in 1..Len(Dependencies(moduleName)) :
                EntryStarts(Dependencies(moduleName)[i]) = 1

(***************************************************************************)
(* C4, amended.  When executeModule calls a module's entry, the load of    *)
(* each declared dependency has returned a value, in declaration order;    *)
(* each dependency that is no built-in name is in the module exports       *)
(* cache, its messages merged and its entry called before that; and a      *)
(* call of executeModule for a module that is in the cache returns the     *)
(* cached export at once, without merging or entering it again.            *)
(***************************************************************************)
\* The loads of deps[i], deps[i + 1], ... each returned a value, in this
\* order between events from and k.
RECURSIVE LoadsInOrder(_, _, _, _)
LoadsInOrder(deps, i, from, k) ==
    \/ i > Len(deps)
    \/ \E j \in from..(k - 1) :
        /\ Is(log[j], "loaded")
        /\ log[j][2] = deps[i]
        /\ log[j][3].kind = "value"
        /\ LoadsInOrder(deps, i + 1, j + 1, k)

\* Before event k: the messages of moduleName were merged, its entry
\* called, and the entry's export cached.
LoadedBefore(moduleName, k) ==
    \E j \in 1..(k - 1) : \E m \in (j + 2)..(k - 1) :
        /\ log[j] = E_merge(moduleName)
        /\ Is(log[j + 1], "entry")
        /\ log[j + 1][2] = moduleName
        /\ Is(log[m], "memo")
        /\ log[m][2] = moduleName
        /\ log[m][3] = log[j + 1][3]

C4_DependenciesLoadedBeforeEntry ==
    /\ \A k \in LogIndices : Is(log[k], "entry") =>
        /\ LoadsInOrder(Dependencies(log[k][2]), 1, 1, k)
        /\ \A i \in 1..Len(Dependencies(log[k][2])) :
             \/ hasOwn(builtinModules, Dependencies(log[k][2])[i])
             \/ LoadedBefore(Dependencies(log[k][2])[i], k)
    /\ \A j \in LogIndices : Is(log[j], "memo") =>
        \A k \in (j + 1)..Len(log) :
            (/\ log[k] = E_load(log[j][2])
             /\ \A m \in (j + 1)..(k - 1) :
                  ~(Is(log[m], "memo") /\ log[m][2] = log[j][2]))
            => /\ k < Len(log)
               /\ log[k + 1] = E_loaded(log[j][2], ReturnValue(log[j][4]))

\* main, which declares A and B, has started its entry, and a later
\* require( 'A' ) has returned a value.
C4_Witness ==
    /\ modules = RegistryDependencies
    /\ \E k \in LogIndices : \E j \in LogIndices :
        /\ EntryStartedAt(N_main, k)
        /\ j > k
        /\ Is(log[j], "result")
        /\ log[j][4] = N_A
        /\ log[j][5].kind = "value"

(***************************************************************************)
(* C5.  A require() whose argument is not relative and names neither a     *)
(* built-in library nor a declared module throws UnknownModule, and one    *)
(* whose argument is relative and resolves to no key of the requiring      *)
(* module's files throws UnknownFile; neither returns a value or executes  *)
(* a file.  The code looks the name up with "fileName in builtinModules",  *)
(* which also finds what the object inherits: require( 'toString' )        *)
(* returns a value.                                                        *)
(***************************************************************************)
\* The require() call logged at k ended at once by throwing e.
ThrewAtOnce(k, e) ==
    IF k = Len(log)
    THEN ret = Throw(e) /\ Running("executeFile", "require")
    ELSE log[k + 1] = E_result(log[k][2], log[k][3], log[k][4], Throw(e))

BuiltinLibraries == {N_vue}

C5_UnknownModuleAndFile ==
    \A k \in LogIndices : Is(log[k], "require") =>
        LET context == log[k][2]
            path == log[k][3]
            fileName == log[k][4]
        IN  /\ (/\ ~IsRelative(fileName)
                /\ fileName \notin BuiltinLibraries
                /\ fileName \notin DOMAIN modules)
               => ThrewAtOnce(k, Err("UnknownModule", fileName))
            /\ (/\ IsRelative(fileName)
                /\ resolveRelativePath(fileName, path) \notin DOMAIN FilesOf(context))
               => ThrewAtOnce(k, Err("UnknownFile", fileName))

(***************************************************************************)
(* C6.  executeModule called with a name that is not in the registry and   *)
(* not cached fails with UnknownModule, for the request's main module and  *)
(* for a declared dependency alike.  The code has no such check: it        *)
(* destructures requestContext.modules[ moduleName ], which is undefined,  *)
(* and what is thrown is a TypeError.                                      *)
(***************************************************************************)
C6_UnknownModuleOnLoad ==
    \A k \in LogIndices :
        (/\ Is(log[k], "load")
         /\ log[k][2] \notin DOMAIN modules
         /\ log[k][2] \notin BuiltinLibraries)
        => /\ k < Len(log)
           /\ log[k + 1] = E_loaded(log[k][2], Throw(Err("UnknownModule", log[k][2])))

(***************************************************************************)
(* C7.  No failed result is cached: right after the execution of a file    *)
(* has raised, its path is absent from the context's file exports cache,   *)
(* and right after a module's load has raised, its name is absent from the *)
(* module exports cache; and the error that ends the request is the error  *)
(* that left the outermost load.  In the code a file (module) that is      *)
(* required while it executes (loads) is executed (loaded) again, C1 and   *)
(* C2; when the nested run ends and the outer one raises, the nested       *)
(* run's export is in the cache.                                           *)
(***************************************************************************)
C7_NothingCachedAfterRaise ==
    /\ (Len(log) > 0 /\ Is(log[Len(log)], "raised"))
       => ~hasOwn(contexts[log[Len(log)][2]].fileExportsCache, log[Len(log)][3])
    /\ (Len(log) > 0 /\ Is(log[Len(log)], "loaded") /\ log[Len(log)][3].kind = "throw")
       => ~hasOwn(moduleExportsCache, log[Len(log)][2])
    /\ phase = "failed"
       => log[Len(log)] = E_loaded(mainModule, mainExport)

(***************************************************************************)
(* C8.  For a relativePath that starts with a run of ./ and ../ segments,  *)
(* resolveRelativePath returns the directory of basePath, less one         *)
(* trailing segment for each ../ of the run (none when it is empty),       *)
(* joined by / to the rest of relativePath, and null for any other         *)
(* relativePath.  The code's regular expression ends with a group of "."  *)
(* repeated and "$", and "." matches no line terminator: for a             *)
(* relativePath that starts with ./ and has a line feed after it the match *)
(* fails and the code returns null.                                        *)
(***************************************************************************)
\* The segments of relativePath that make up its leading run: those before
\* its last that are "." or "..", from the first on.
RECURSIVE LeadingRun(_, _)
LeadingRun(segments, i) ==
    IF i < Len(segments) /\ segments[i] \in {<<".">>, <<".", ".">>}
    THEN LeadingRun(segments, i + 1)
    ELSE i - 1

Ups(segments, n) == Cardinality({i \in 1..n : segments[i] = <<".", ".">>})

Resolution(relative, base) ==
    LET segments == Split(relative, "/")
        n == LeadingRun(segments, 1)
        rest == Join(SubSeq(segments, n + 1, Len(segments)), "/")
        directory == Pop(Split(base, "/"))
        kept == IF Len(directory) > Ups(segments, n)
                THEN SubSeq(directory, 1, Len(directory) - Ups(segments, n))
                ELSE <<>>
    IN  IF n = 0 THEN Null
        ELSE IF Len(kept) = 0 THEN rest
        ELSE Join(kept, "/") \o <<"/">> \o rest

C8_ResolvesLeadingRun ==
    resolved # NotCalled => resolved = Resolution(relativePath, basePath)

(***************************************************************************)
(* C9.  A relative require() issued by a file of a module reads that       *)
(* module's files and that module's file exports cache only: what it       *)
(* executes is the file at the resolved path in the module's own files,    *)
(* what it caches is cached in the requiring file's context, and what it   *)
(* returns was cached in that context under the resolved path, also when   *)
(* another module has a file at the same path.                             *)
(***************************************************************************)
\* The files of the module a context was created for, read from the
\* registry.
OwnFiles(context) == modules[contexts[context].moduleName].files

C9_RelativeRequireStaysInModule ==
    /\ \A k \in LogIndices : (Is(log[k], "require") /\ IsRelative(log[k][4])) =>
        LET context == log[k][2]
            path == log[k][3]
            fileName == log[k][4]
            p == resolveRelativePath(fileName, path)
        IN  /\ k < Len(log) =>
                IF p \notin DOMAIN OwnFiles(context)
                THEN log[k + 1] = E_result(context, path, fileName,
                                           Throw(Err("UnknownFile", fileName)))
                ELSE \/ /\ log[k + 1] = E_start(context, p)
                        /\ OwnFiles(context)[p].type = "string"
                     \/ /\ log[k + 1] = E_raised(context, p, Err("TypeError", p))
                        /\ OwnFiles(context)[p].type = "string"
                        /\ ~OwnFiles(context)[p].script
                     \/ /\ log[k + 1] = E_cache(context, p,
                                            FileValue(ModuleOf(context), p))
                        /\ OwnFiles(context)[p].type # "string"
                     \/ \E i \in 1..(k - 1) :
                        /\ Is(log[i], "cache")
                        /\ log[i][2] = context
                        /\ log[i][3] = p
                        /\ log[k + 1] = E_result(context, path, fileName,
                                                 ReturnValue(log[i][4]))
    /\ \A j \in LogIndices :
        (/\ Is(log[j], "result")
         /\ IsRelative(log[j][4])
         /\ log[j][5].kind = "value")
        => \E i \in 1..(j - 1) :
            /\ Is(log[i], "cache")
            /\ log[i][2] = log[j][2]
            /\ log[i][4] = log[j][5].v
            /\ log[i][3] = resolveRelativePath(log[j][4], log[j][3])
    /\ \A k \in LogIndices : Is(log[k], "start") =>
        /\ log[k][3] \in DOMAIN OwnFiles(log[k][2])
        /\ OwnFiles(log[k][2])[log[k][3]].type = "string"
    /\ \A context \in ContextIds :
        DOMAIN contexts[context].fileExportsCache \subseteq
            DOMAIN OwnFiles(context) \cup {modules[ModuleOf(context)].entry}

\* A file of A has required ./s/b and got A's own s/b, which is no script,
\* while main has a script at s/b.
C9_Witness ==
    /\ modules = RegistryBasic
    /\ modules[N_main].files[P_sb].type = "string"
    /\ \E k \in LogIndices : \E context \in ContextIds :
        /\ ModuleOf(context) = N_A
        /\ log[k] = E_result(context, P_a, R_sb, ReturnValue(FileValue(N_A, P_sb)))

(***************************************************************************)
(* C10.  As claimed: the export of a file with source text is the value    *)
(* in module.exports when its script ends (the object it was created with  *)
(* unless the script assigned another value); require( './f' ) returns     *)
(* such an export of file f of the same module, and require( 'M' ), for a  *)
(* declared module M with a source entry, such an export of M's entry.     *)
(* A declared module that is named like a built-in library is never        *)
(* loaded by require(): require( 'vue' ) returns the library.              *)
(***************************************************************************)
\* A script of path in context ended before event k with v in
\* module.exports.
EndedWith(context, path, v, k) ==
    \E i \in 1..(k - 1) : log[i] = E_end(context, path, v)

\* Every script that ended has its module.exports cached as its export and
\* returned, unless attaching the template raised.
ExportIsModuleExports ==
    \A k \in LogIndices : Is(log[k], "end") =>
        /\ k < Len(log)
        /\ \/ log[k + 1] = E_cache(log[k][2], log[k][3], log[k][4])
           \/ /\ Is(log[k + 1], "raised")
              /\ log[k][4] = Undefined

\* A relative require() of a source file that returns a value returns what
\* was in module.exports when a script of that file ended.
RelativeRequireReturnsExport ==
    \A j \in LogIndices :
        (/\ Is(log[j], "result")
         /\ IsRelative(log[j][4])
         /\ log[j][5].kind = "value")
        => LET context == log[j][2]
               p == resolveRelativePath(log[j][4], log[j][3])
           IN  OwnFiles(context)[p].type = "string"
               => EndedWith(context, p, log[j][5].v, j)

\* require( moduleName ) at event j returned what was in module.exports
\* when a script of the module's entry ended.
ModuleRequireReturnsExport(j) ==
    /\ log[j][5].kind = "value"
    /\ \E context \in ContextIds :
        /\ ModuleOf(context) = log[j][4]
        /\ EndedWith(context, modules[log[j][4]].entry, log[j][5].v, j)

HandledAlone(body) ==
    [moduleExportsCache |->
         Put(SeededModuleExportsCache, N_main, ExportOfScript(EmptyMap, body)),
     messageMap |-> addMessages(EmptyMap, MessagesOfBody(body)),
     mainExport |-> ExportOfScript(EmptyMap, body)]

C11_RequestsIsolated ==
    \A r \in Requests : served[r].phase # "waiting" =>
        /\ served[r].moduleExportsCache = HandledAlone(bodies[r]).moduleExportsCache
        /\ served[r].messageMap = HandledAlone(bodies[r]).messageMap
        /\ served[r].mainExport = HandledAlone(bodies[r]).mainExport
        /\ served[r].phase = "responded" =>
              served[r].html = <<HandledAlone(bodies[r]).mainExport.seen,
                                 HandledAlone(bodies[r]).messageMap["greeting"]>>

(***************************************************************************)
(* C12.  As claimed: format returns the text with every $N token, N a      *)
(* decimal number counted from 1, replaced by the N-th parameter when      *)
(* there is one, and with every other part of the text as it is: a $N      *)
(* without a parameter, and any other sequence that begins with $.  In    *)
(* the code the first "$" followed by a star is no literal text: it is     *)
(* replaced by the list of the parameters.                                 *)
(***************************************************************************)
\* Position i of text begins a $N token; the token ends at TokenEnd.
BeginsToken(text, i) == text[i] = "$" /\ i < Len(text) /\ text[i + 1] \in Digits

TokenEnd(text, i) ==
    CHOOSE e \in (i + 1)..Len(text) :
        /\ \A k \in (i + 1)..e : text[k] \in Digits
        /\ e = Len(text) \/ text[e + 1] \notin Digits

\* Position i of text is a digit of a $N token.
WithinToken(text, i) ==
    \E j \in 1..(i - 1) : BeginsToken(text, j) /\ i <= TokenEnd(text, j)

\* The N of the token that begins at position i.
TokenNumber(text, i) == ParseInt(SubSeq(text, i + 1, TokenEnd(text, i)))

\* What stands in the result for position i of text.
Substitute(text, i, args) ==
    IF WithinToken(text, i) THEN <<>>
    ELSE IF /\ BeginsToken(text, i)
            /\ TokenNumber(text, i) \in 1..Len(args)
            /\ args[TokenNumber(text, i)] # Undefined
    THEN args[TokenNumber(text, i)]
    ELSE IF BeginsToken(text, i) THEN SubSeq(text, i, TokenEnd(text, i))
    ELSE <<text[i]>>

RECURSIVE SubstitutedFrom(_, _, _)
SubstitutedFrom(text, i, args) ==
    IF i > Len(text) THEN <<>>
    ELSE Substitute(text, i, args) \o SubstitutedFrom(text, i + 1, args)

Substituted(text, args) == SubstitutedFrom(text, 1, args)

C12_FormatReplacesTokensOnly ==
    formatted # NotCalled => formatted = Substituted(formatString, parameters)

(***************************************************************************)
(* C12, amended.  format first replaces the first "$" followed by a star   *)
(* in the text, when there is one, by ": $1, $2, ..., $n" for its n        *)
(* parameters (by nothing when it has none); in what this gives it         *)
(* replaces every $N token by the N-th parameter when there is one that is *)
(* not undefined, and leaves every other part as it is.                    *)
(***************************************************************************)
\* Where the first "$" followed by a star is in text, 0 when nowhere.
StarAt(text) ==
    LET stars == {i \in 1..(Len(text) - 1) : text[i] = "$" /\ text[i + 1] = "*"}
    IN  IF stars = {} THEN 0
        ELSE CHOOSE i \in stars : \A j \in stars : i <= j

\* ": $1, $2, ..., $n", nothing for n = 0.
RECURSIVE Listed(_)
Listed(n) ==
    IF n = 0 THEN <<>>
    ELSE IF n = 1 THEN <<":", " ", "$">> \o NumberToString(1)
    ELSE Listed(n - 1) \o <<",", " ", "$">> \o NumberToString(n)

WithList(text, args) ==
    IF StarAt(text) = 0 THEN text
    ELSE SubSeq(text, 1, StarAt(text) - 1) \o Listed(Len(args))
         \o SubSeq(text, StarAt(text) + 2, Len(text))

C12_FormatListsThenReplacesTokens ==
    formatted # NotCalled =>
        formatted = Substituted(WithList(formatString, parameters), parameters)

\* format( '$1$10', 'x' ) has returned 'x$10'.
C12_Witness ==
    /\ formatString = <<"$", "1", "$", "1", "0">>
    /\ parameters = <<<<"x">>>>
    /\ formatted = <<"x", "$", "1", "0">>

(***************************************************************************)
(* C13.  As claimed: for every key the message map has the text of the     *)
(* module merged last among those that define the key; a module's          *)
(* messages are merged exactly once per request, after those of its        *)
(* declared dependencies and right before its entry is called.  (Stated    *)
(* for runs in which no module is loaded while it is being loaded, so      *)
(* that a violation does not rest on what C2 is about.)  A module whose    *)
(* entry has raised is not in the cache: when a script catches the error   *)
(* and requires the module again, its messages are merged a second time.   *)
(***************************************************************************)
\* The messages of a module of the registry.
MessagesOf(moduleName) == modules[moduleName].messages.entries

\* The events at which messages that define key k were merged.
MergesOf(k) ==
    {j \in LogIndices : Is(log[j], "merge") /\ k \in DOMAIN MessagesOf(log[j][2])}

LastMergeOf(k) == CHOOSE j \in MergesOf(k) : \A i \in MergesOf(k) : i <= j

\* Every key has the text of the last merge that defines it.
LastMergeWins ==
    /\ DOMAIN messageMap = {k \in {"greeting", "title"} : MergesOf(k) # {}}
    /\ \A k \in DOMAIN messageMap :
        messageMap[k] = MessagesOf(log[LastMergeOf(k)][2])[k]

\* A merge comes after a merge of each declared dependency that is no
\* built-in name, and right before the call of the module's entry.
MergedAfterDependenciesBeforeEntry ==
    \A k \in LogIndices : Is(log[k], "merge") =>
        /\ \A i \in 1..Len(Dependencies(log[k][2])) :
             \/ hasOwn(builtinModules, Dependencies(log[k][2])[i])
             \/ \E j \in 1..(k - 1) : log[j] = E_merge(Dependencies(log[k][2])[i])
        /\ k < Len(log)
        /\ Is(log[k + 1], "entry")
        /\ log[k + 1][2] = log[k][2]

Merges(moduleName) ==
    Cardinality({k \in LogIndices : log[k] = E_merge(moduleName)})

\* Some module's entry was called again while a call of it was in progress:
\* no load of the module ended between the two.
Reentered ==
    \E j, k \in LogIndices :
        /\ j < k
        /\ Is(log[j], "entry")
        /\ Is(log[k], "entry")
        /\ log[j][2] = log[k][2]
        /\ \A m \in (j + 1)..(k - 1) :
             ~(Is(log[m], "loaded") /\ log[m][2] = log[j][2])

BuiltinShadowsDeclared ==
    /\ \A k \in LogIndices :
        (Is(log[k], "require") /\ log[k][4] \in BuiltinLibraries /\ k < Len(log))
        => log[k + 1] = E_result(log[k][2], log[k][3], log[k][4],
                                 ReturnValue(builtinModules[log[k][4]]))
    /\ \A k \in LogIndices :
        (Is(log[k], "load") /\ log[k][2] \in BuiltinLibraries)
        => /\ k < Len(log)
           /\ log[k + 1] = E_loaded(log[k][2], ReturnValue(builtinModules[log[k][2]]))
    /\ \A k \in LogIndices :
        (Is(log[k], "merge") \/ Is(log[k], "entry"))
        => log[k][2] \notin BuiltinLibraries

\* The require() logged at k was answered by executeModule or by throwing
\* UnknownModule.
AnsweredByRegistry(k) ==
    \/ log[k + 1] = E_load(log[k][4])
    \/ log[k + 1] = E_result(log[k][2], log[k][3], log[k][4],
                             Throw(Err("UnknownModule", log[k][4])))

C14_BuiltinFirstExactNameOnly ==
    /\ BuiltinShadowsDeclared
    /\ \A k \in LogIndices :
        (/\ Is(log[k], "require")
         /\ ~IsRelative(log[k][4])
         /\ log[k][4] \notin BuiltinLibraries
         /\ k < Len(log))
        => AnsweredByRegistry(k)

(***************************************************************************)
(* C15.  When the parse of an SFC (a path that ends in .vue, a text that   *)
(* begins with "<" when trimmed) reports a failure, executeFile raises     *)
(* MarkupParseError: the script of the file is not started, and nothing is *)
(* cached or returned for the path.  The code does not look at the errors  *)
(* the parse reports: the script the descriptor has is run and its export  *)
(* cached and returned, and without a script in the descriptor what is     *)
(* raised is a TypeError.                                                  *)
(***************************************************************************)
\* The file at path in the context's module is an SFC whose parse reports
\* errors.
ParseFails(context, path) ==
    /\ path \in DOMAIN OwnFiles(context)
    /\ OwnFiles(context)[path].type = "string"
    /\ IsSFC(path, OwnFiles(context)[path])
    /\ OwnFiles(context)[path].errors

C15_MarkupParseErrorRaised ==
    \A k \in LogIndices :
        /\ (Is(log[k], "start") \/ Is(log[k], "cache") \/ Is(log[k], "end"))
           => ~ParseFails(log[k][2], log[k][3])
        /\ (Is(log[k], "raised") /\ ParseFails(log[k][2], log[k][3]))
           => log[k][4] = Err("MarkupParseError", log[k][3])

(***************************************************************************)
(* C16.  As claimed: cycles of declared dependencies are not detected.  A  *)
(* load of a module from which such a cycle can be reached never returns   *)
(* an export, no module on the cycle is ever put into the module exports   *)
(* cache, and no entry of a module on the cycle is ever called.  A module  *)
(* named like a built-in library is in the cache from the start and is     *)
(* never loaded: a cycle through it is never entered, and the load         *)
(* returns.                                                                *)
(***************************************************************************)
\* The modules a load of moduleName loads next: its declared dependencies.
Declared(moduleName) ==
    IF moduleName \in DOMAIN modules
    THEN {Dependencies(moduleName)[i] : i \in 1..Len(Dependencies(moduleName))}
    ELSE {}

\* The names reached from a set of names along Succ in at most n steps.
RECURSIVE ReachedWithin(_, _, _)
ReachedWithin(names, Succ(_), n) ==
    IF n = 0 THEN names
    ELSE ReachedWithin(names \cup UNION {Succ(m) : m \in names}, Succ, n - 1)

ModuleNames == DOMAIN modules \cup UNION {Declared(m) : m \in DOMAIN modules}

\* moduleName is on a cycle of Succ; a cycle can be reached from it.
OnCycle(moduleName, Succ(_)) ==
    moduleName \in ReachedWithin(Succ(moduleName), Succ, Cardinality(ModuleNames))

ReachesCycle(moduleName, Succ(_)) ==
    \E m \in ReachedWithin({moduleName}, Succ, Cardinality(ModuleNames)) :
        OnCycle(m, Succ)

\* The modules put into the module exports cache by a load.
Memoized == {log[k][2] : k \in {j \in LogIndices : Is(log[j], "memo")}}

NoLoadThroughCycle(Succ(_)) ==
    /\ \A k \in LogIndices :
        (Is(log[k], "loaded") /\ ReachesCycle(log[k][2], Succ))
        => log[k][3].kind = "throw"
    /\ ReachesCycle(mainModule, Succ) => phase # "rendering"
    /\ \A moduleName \in Memoized : ~OnCycle(moduleName, Succ)
    /\ \A k \in LogIndices : Is(log[k], "entry") => ~OnCycle(log[k][2], Succ)

C16_CyclesNeverLoad == NoLoadThroughCycle(Declared)

(***************************************************************************)
(* C16, amended.  The same for the cycles that a load can enter: those of  *)
(* the graph in which a module named like a built-in library declares      *)
(* nothing.                                                                *)
(***************************************************************************)
DeclaredAndLoaded(moduleName) ==
    IF hasOwn(builtinModules, moduleName) THEN {} ELSE Declared(moduleName)

C16_EnteredCyclesNeverLoad == NoLoadThroughCycle(DeclaredAndLoaded)

\* main, which declares A, which declares main, is being loaded for the
\* third time, each load within the one before.
C16_Witness ==
    /\ modules = RegistryCycle
    /\ Cardinality({k \in LogIndices : log[k] = E_load(N_main)}) >= 3
    /\ \A k \in LogIndices : ~Is(log[k], "loaded") \/ log[k][2] = N_vue

(***************************************************************************)
(* C17.  As claimed: when every name that can be reached from the main     *)
(* module is declared, the graph of declared dependencies, required        *)
(* modules and required files that can be reached from it has no cycle,    *)
(* and no script raises, the load of the main module ends, returns the     *)
(* export of its entry, and every module loaded on the way is in the       *)
(* module exports cache.  A load can raise where no script does: the       *)
(* messages of a module may be a string that JSON.parse rejects.           *)
(***************************************************************************)
ModuleNode(moduleName) == <<"module", moduleName>>
FileNode(moduleName, path) == <<"file", moduleName, path>>

\* What a load of a module, or an execution of a file, may load or execute.
Successors(node) ==
    IF node[1] = "module"
    THEN IF node[2] \in DOMAIN modules
         THEN {ModuleNode(d) : d \in Declared(node[2])}
              \cup {FileNode(node[2], modules[node[2]].entry)}
         ELSE {}
    ELSE IF node[3] \in DOMAIN modules[node[2]].files
    THEN {IF resolveRelativePath(r, node[3]) = Null
          THEN ModuleNode(r)
          ELSE FileNode(node[2], resolveRelativePath(r, node[3])) :
            r \in modules[node[2]].files[node[3]].requires}
    ELSE {}

\* The modules and files of the registry, and the names it declares.
Nodes ==
    {ModuleNode(m) : m \in ModuleNames}
    \cup UNION {{FileNode(m, q) : q \in DOMAIN modules[m].files \cup {modules[m].entry}} :
                m \in DOMAIN modules}

Reachable ==
    ReachedWithin({ModuleNode(mainModule)}, Successors, Cardinality(Nodes))

AllDeclared ==
    \A node \in Reachable : node[1] = "module" => node[2] \in DOMAIN modules

Acyclic ==
    \A node \in Reachable :
        node \notin ReachedWithin(Successors(node), Successors, Cardinality(Nodes))

\* The execution of some file has raised.
SomeFileRaised == \E k \in LogIndices : Is(log[k], "raised")

\* The load of the main module has returned the export of its entry, and
\* every module whose load was begun is in the module exports cache.
LoadedWithExports ==
    /\ phase = "rendering"
    /\ mainExport.kind = "value"
    /\ \E context \in ContextIds :
        /\ ModuleOf(context) = mainModule
        /\ \E k \in LogIndices :
            log[k] = E_cache(context, modules[mainModule].entry, mainExport.v)
    /\ \A k \in LogIndices :
        Is(log[k], "load") => hasOwn(moduleExportsCache, log[k][2])

MessagesDecode ==
    \A node \in Reachable :
        (node[1] = "module" /\ node[2] \in DOMAIN modules)
        => modules[node[2]].messages.valid

MemosOf(moduleName) ==
    {j \in LogIndices : Is(log[j], "memo") /\ log[j][2] = moduleName}

LastMemoOf(moduleName) ==
    CHOOSE j \in MemosOf(moduleName) : \A i \in MemosOf(moduleName) : i <= j

\* Every memoized module is in the cache with the export memoized last.
MemoizedRemain ==
    \A moduleName \in Memoized :
        /\ hasOwn(moduleExportsCache, moduleName)
        /\ moduleExportsCache[moduleName] = log[LastMemoOf(moduleName)][4]

\* Event j is the end of a load that raised.
FailedAt(j) == Is(log[j], "loaded") /\ log[j][3].kind = "throw"

\* Event j is the end of a load that raised because the execution of the
\* module's entry raised.
FailedInEntryAt(j) ==
    /\ j > 1
    /\ FailedAt(j)
    /\ hasOwn(modules, log[j][2])
    /\ Is(log[j - 1], "raised")
    /\ ModuleOf(log[j - 1][2]) = log[j][2]
    /\ log[j - 1][3] = modules[log[j][2]].entry

\* As far as the history goes after the load of moduleName at event k:
\* each declared dependency is loaded and returns a value, then the
\* module's messages are merged and its entry is called.
LoadedAfresh(moduleName, k) ==
    LET deps == Dependencies(moduleName)
        n == Len(deps)
    IN
    \A p \in 1..(2 * n + 2) :
        k + p <= Len(log) =>
            IF p > 2 * n + 1
            THEN Is(log[k + p], "entry") /\ log[k + p][2] = moduleName
            ELSE IF p > 2 * n
            THEN log[k + p] = E_merge(moduleName)
            ELSE IF p % 2 = 1
            THEN log[k + p] = E_load(deps[(p + 1) \div 2])
            ELSE /\ Is(log[k + p], "loaded")
                 /\ log[k + p][2] = deps[p \div 2]
                 /\ log[k + p][3].kind = "value"

\* No entry of a module is called, and no messages of it are merged, after
\* the module was memoized.
MemoizedNotExecutedAgain ==
    \A i, k \in LogIndices :
        (i < k /\ Is(log[i], "memo"))
        => /\ ~(Is(log[k], "entry") /\ log[k][2] = log[i][2])
           /\ log[k] # E_merge(log[i][2])

FailedLoadNotRolledBack ==
    /\ LastMergeWins
    /\ MemoizedRemain
    /\ MemoizedNotExecutedAgain
    /\ (Len(log) > 0 /\ FailedAt(Len(log)) /\ hasOwn(modules, log[Len(log)][2]))
       => ~hasOwn(moduleExportsCache, log[Len(log)][2])
    /\ \A j, k \in LogIndices :
        (j < k /\ FailedInEntryAt(j) /\ log[k] = E_load(log[j][2]))
        => LoadedAfresh(log[j][2], k)

SuppliedValue(context, path) ==
    /\ hasOwn(FilesOf(context), path)
    /\ FilesOf(context)[path].type # "string"

\* The entry of the module is no key of its files.
EntryMissing(moduleName) ==
    /\ hasOwn(modules, moduleName)
    /\ ~hasOwn(modules[moduleName].files, modules[moduleName].entry)

\* No script of a value that is no source, or of a path that is no key,
\* has started.
NoneStarted ==
    \A k \in LogIndices :
        Is(log[k], "start") =>
            /\ hasOwn(FilesOf(log[k][2]), log[k][3])
            /\ FilesOf(log[k][2])[log[k][3]].type = "string"

\* What is cached for a value that is no source is that value, and it is
\* what the cache has since.
SuppliedValuesCachedAsIs ==
    \A k \in LogIndices :
        (Is(log[k], "cache") /\ SuppliedValue(log[k][2], log[k][3]))
        => /\ log[k][4] = FileValue(ModuleOf(log[k][2]), log[k][3])
           /\ Get(contexts[log[k][2]].fileExportsCache, log[k][3]) = log[k][4]

\* The entry of a module whose entry is missing is called, cached as
\* undefined and memoized as undefined at once, and the load returns
\* undefined; every load after that returns undefined at once.
MissingEntryLoadsUndefined ==
    \A k \in LogIndices :
        (Is(log[k], "entry") /\ EntryMissing(log[k][2])) =>
            LET moduleName == log[k][2]
                context == log[k][3]
                entry == modules[moduleName].entry
            IN
            /\ k + 1 <= Len(log) => log[k + 1] = E_cache(context, entry, Undefined)
            /\ k + 2 <= Len(log) => log[k + 2] = E_memo(moduleName, context, Undefined)
            /\ k + 3 <= Len(log)
               => log[k + 3] = E_loaded(moduleName, ReturnValue(Undefined))
            /\ \A m \in LogIndices :
                (m > k + 3 /\ log[m] = E_load(moduleName))
                => /\ m < Len(log)
                   /\ log[m + 1] = E_loaded(moduleName, ReturnValue(Undefined))
            /\ k + 3 <= Len(log)
               => Get(moduleExportsCache, moduleName) = Undefined

C19_NonSourceNeverExecuted ==
    /\ NoneStarted
    /\ SuppliedValuesCachedAsIs
    /\ MissingEntryLoadsUndefined

=============================================================================
